---- MODULE Spec2Model ----
(***************************************************************************)
(* The time-windowed correlation engine of solution.py: raw_correlate      *)
(* groups two event tables by (account_id, service_id), sorts each group   *)
(* by timestamp and, for every incident, counts the distinct change titles *)
(* found in the trailing window [its - window, its].                       *)
(*                                                                         *)
(* Timestamps are whole seconds (the CSV format carries seconds); the      *)
(* window is given in minutes and converted by timedelta.                  *)
(***************************************************************************)
EXTENDS Integers, Sequences, FiniteSets

\* ------------------------------------------------------------------ bounds
MaxChanges == 2     \* rows of the change table
MaxIncidents == 2   \* rows of the incident table
NumAccounts == 1    \* account_id values
NumServices == 2    \* service_id values
NumTitles == 2      \* title values
MaxMinute == 1      \* timestamps: minute part
MaxSecond == 1      \* timestamps: second part
MaxWindow == 1      \* largest --window-minutes
MaxItems == 2       \* items handed to one classify_with_llm call
MaxRuns == 2        \* runs that share one cache file

Accounts == 1..NumAccounts
Services == 1..NumServices
Titles == 1..NumTitles
Timestamps == {m * 60 + s : m \in 0..MaxMinute, s \in 0..MaxSecond}
\* argparse's type=int accepts a negative --window-minutes
WindowMinutes == (-1)..MaxWindow

Rows == [account_id : Accounts, service_id : Services,
         title : Titles, timestamp : Timestamps]

SeqsUpTo(S, k) == UNION {[1..m -> S] : m \in 0..k}

\* --------------------------------------------------------- pure operators
\* timedelta(minutes=window_minutes), in the unit of the timestamps
timedelta(minutes) == minutes * 60

\* the key groupby(["account_id", "service_id"]) files a row under
GroupKeyOf(row) == <<row.account_id, row.service_id>>

\* set(df.groupby([...]).groups): the keys that have at least one row
Groups(df) == {GroupKeyOf(df[i]) : i \in DOMAIN df}

\* grp.get_group(key): the rows of that key, in the table's order
get_group(df, key) == SelectSeq(df, LAMBDA row : GroupKeyOf(row) = key)

\* slip: | for &
CommonGroupsUnion(chgs, incs) == Groups(chgs) \cup Groups(incs)

\* set(grp_chg.groups) & set(grp_inc.groups)
CommonGroups(chgs, incs) == Groups(chgs) \cap Groups(incs)

IsSortedByTimestamp(s) ==
    \A i \in 1..Len(s) : \A j \in i..Len(s) : s[i].timestamp <= s[j].timestamp

\* the orders in which the elements of a set can be enumerated
Orders(S) ==
    {o \in [1..Cardinality(S) -> S] : \A i, j \in DOMAIN o : o[i] = o[j] => i = j}

\* the permutations of the rows of a table
Permutations(df) ==
    {[i \in DOMAIN df |-> df[f[i]]] : f \in Orders(DOMAIN df)}

\* slip: the sort left out
sort_values_none(df) == {df}

\* df.sort_values("timestamp"): the rows in ascending timestamp order. The
\* default kind="quicksort" is not stable, so rows of equal timestamp may
\* come out in any order: the set of the possible results.
sort_values(df) == {t \in Permutations(df) : IsSortedByTimestamp(t)}

\* results = defaultdict(int)
EmptyTable == [p \in {} |-> 0]

\* results[p] of a defaultdict(int), read without inserting
Count(table, p) == IF p \in DOMAIN table THEN table[p] ELSE 0

\* slip: < for <=
AdmitCondStrict(c, i, its) == i < Len(c) /\ c[i + 1].timestamp < its

\* while idx < n and chg.iloc[idx]["timestamp"] <= its
AdmitCond(c, i, its) == i < Len(c) /\ c[i + 1].timestamp <= its

\* slip: appendleft for append
AdmitAppendLeft(d, c, i) == <<<<c[i + 1].timestamp, c[i + 1].title>>>> \o d

\* dq.append((chg.iloc[idx]["timestamp"], chg.iloc[idx]["title"]))
AdmitAppend(d, c, i) == Append(d, <<c[i + 1].timestamp, c[i + 1].title>>)

\* slip: <= for <
EvictCondInclusive(d, cutoff) == d /= <<>> /\ d[1][1] <= cutoff

\* while dq and dq[0][0] < cutoff
EvictCond(d, cutoff) == d /= <<>> /\ d[1][1] < cutoff

\* slip: pop() for popleft()
pop(d) == SubSeq(d, 1, Len(d) - 1)

\* dq.popleft()
popleft(d) == Tail(d)

\* unique_titles = {t for _, t in dq}
UniqueTitles(d) == {d[i][2] : i \in DOMAIN d}

\* for ctitle in unique_titles: results[(irow["title"], ctitle)] += 1
Increment(table, ititle, ctitles) ==
    [p \in DOMAIN table \cup {<<ititle, c>> : c \in ctitles} |->
        Count(table, p) + (IF p[1] = ititle /\ p[2] \in ctitles THEN 1 ELSE 0)]

\* lines 188-190 run to completion: the deque and the cursor after the loop
RECURSIVE AdmitAll(_, _, _, _)
AdmitAll(c, d, i, its) ==
    IF AdmitCond(c, i, its)
    THEN AdmitAll(c, AdmitAppend(d, c, i), i + 1, its)
    ELSE [dq |-> d, idx |-> i]

\* lines 191-193 run to completion: the deque after the loop
RECURSIVE EvictAll(_, _)
EvictAll(d, cutoff) ==
    IF EvictCond(d, cutoff) THEN EvictAll(popleft(d), cutoff) ELSE d

\* lines 187-197: the body of the loop over the incidents, on the pass state
\* st = [dq, idx, results]
ProcessIncident(st, c, row, w) ==
    LET a == AdmitAll(c, st.dq, st.idx, row.timestamp)
        d == EvictAll(a.dq, row.timestamp - w)
    IN  [dq |-> d, idx |-> a.idx,
         results |-> Increment(st.results, row.title, UniqueTitles(d))]

\* line 186: the loop over the group's incidents, from row number k on
RECURSIVE IncidentLoop(_, _, _, _, _)
IncidentLoop(st, c, incs, k, w) ==
    IF k > Len(incs) THEN st
    ELSE IncidentLoop(ProcessIncident(st, c, incs[k], w), c, incs, k + 1, w)

\* lines 179-197: one group's pass, adding to the table so far
GroupPass(table, chgs, incs, k, w) ==
    LET c == CHOOSE t \in sort_values(get_group(chgs, k)) : TRUE
        i == CHOOSE t \in sort_values(get_group(incs, k)) : TRUE
    IN  IncidentLoop([dq |-> <<>>, idx |-> 0, results |-> table],
                     c, i, 1, w).results

\* line 178: the loop over the common keys, visited in the given order
RECURSIVE KeyLoop(_, _, _, _, _)
KeyLoop(table, order, chgs, incs, w) ==
    IF order = <<>> THEN table
    ELSE KeyLoop(GroupPass(table, chgs, incs, Head(order), w),
                 Tail(order), chgs, incs, w)

\* raw_correlate as a function of its arguments and of the order in which
\* the set of common keys is iterated
raw_correlate(chgs, incs, minutes, order) ==
    KeyLoop(EmptyTable, order, chgs, incs, timedelta(minutes))

\* ------------------------------------------- classification: operators
\* lines 20-22: the cache files
CHANGE_NOISE_CACHE_FILE == "cache/change_noise_cache.json"
INCIDENT_NOISE_CACHE_FILE == "cache/incident_noise_cache.json"
CAUSALITY_CACHE_FILE == "cache/causality_cache.json"

\* A title's text, as a sequence of tokens: title t reads "a ||| a ... a"
\* with t letters, the token "|||" standing for the substring " ||| ".
\* Titles come from the CSV files and may hold any text.
SEP == "|||"
Text(t) == [i \in 1..(2 * t - 1) |-> IF i % 2 = 1 THEN "a" ELSE SEP]

\* An item is <<t>>, a title (a str), or <<i, c>>, an (incident, change) pair.
\* lines 94-97: key = item for a str, f"{item[0]} ||| {item[1]}" otherwise
ItemKey(item) ==
    IF Len(item) = 1 THEN Text(item[1])
    ELSE Text(item[1]) \o <<SEP>> \o Text(item[2])

TitleItems == {<<t>> : t \in Titles}
PairItems == {<<i, c>> : i \in Titles, c \in Titles}

\* the items a cache file is used for (lines 248-249, 260-261, 299)
ItemsOf(path) == IF path = CAUSALITY_CACHE_FILE THEN PairItems ELSE TitleItems

\* the lists of distinct items (a set of titles, the keys of a dict)
ItemLists(S, k) ==
    {l \in SeqsUpTo(S, k) : \A i, j \in DOMAIN l : l[i] = l[j] => i = j}

\* Python's None
None == "<None>"

\* response.output_text: what the prompt asks for, or any other text
Replies(path) ==
    IF path = CAUSALITY_CACHE_FILE THEN {"CAUSAL", "NOT_CAUSAL", "UNSURE"}
    ELSE {"MEANINGFUL", "NOISE", "UNSURE"}

\* the call at lines 105-109 raised
Raised == "<raised>"
NoResponse == "<no call>"

\* a dict with string keys
EmptyDict == [k \in {} |-> None]
Put(d, k, v) == [x \in DOMAIN d \cup {k} |-> IF x = k THEN v ELSE d[x]]

\* the file at a path: missing, holding a JSON object, holding text json.load
\* rejects (JSONDecodeError), or not readable at all (open or read raises)
AbsentFile == [state |-> "absent", data |-> EmptyDict]
GarbledFile == [state |-> "garbled", data |-> EmptyDict]
UnreadableFile == [state |-> "unreadable", data |-> EmptyDict]
JsonFile(d) == [state |-> "json", data |-> d]

\* lines 39-48, load_cache: the dict returned
load_cache(file) == IF file.state = "json" THEN file.data ELSE EmptyDict

\* lines 110-114: the label of a response
LabelOf(resp) == IF resp = Raised THEN None ELSE resp

\* ------------------------------------------------------------------ state
VARIABLES
    changes,         \* the change table handed to raw_correlate
    incidents,       \* the incident table handed to raw_correlate
    window_minutes,  \* the window argument
    pc,              \* position in raw_correlate
    window,          \* timedelta
    results,         \* the table being built
    common,          \* keys present in both tables
    visited,         \* keys the for-loop over common has already yielded
    key,             \* current group key
    chg, inc,        \* the group's sorted sub-tables
    dq,              \* deque of (timestamp, title)
    idx,             \* cursor into chg (0-based)
    ipos,            \* number of rows inc.iterrows() has yielded
    irow,            \* current incident row
    unique_titles    \* last set of distinct titles

VARIABLES
    cache_path,      \* classify_with_llm: the cache_file argument
    disk,            \* the file at cache_path
    run,             \* number of the run (process) under way
    items,           \* classify_with_llm: the items, in iteration order
    pos,             \* number of items the loop has yielded
    cache,           \* the dict load_cache returned, as updated
    labels,          \* classify_with_llm's results dict
    response,        \* outcome of the last oracle call
    cpc,             \* position in classify_with_llm
    oracle_log,      \* the oracle's request log: <<run, key>> per call
    stderr           \* messages printed so far: <<run, message>>

VARIABLES
    mpc,               \* position in main
    all_changes,       \* main: the changes load_and_prepare returned
    all_incidents,     \* main: the incidents load_and_prepare returned
    labeled_changes,   \* filter_noise: the labels of the change titles
    labeled_incidents, \* filter_noise: the labels of the incident titles
    raw,               \* main: the table raw_correlate returned
    raw_file,          \* the file at COUNT_PAIRS_CACHE_FILE
    label_map,         \* filter_causality: the labels of the pairs
    causal,            \* main: the table filter_causality returned
    output,            \* the file at args.output
    stdout             \* what line 350 printed: the number of causal pairs

classify_vars == <<cache_path, disk, run, items, pos, cache, labels,
                   response, cpc, oracle_log, stderr>>

main_vars == <<mpc, all_changes, all_incidents, labeled_changes,
               labeled_incidents, raw, raw_file, label_map, causal, output,
               stdout>>

vars == <<changes, incidents, window_minutes, pc, window, results, common,
          visited, key, chg, inc, dq, idx, ipos, irow, unique_titles,
          classify_vars, main_vars>>

inputs == <<changes, incidents, window_minutes>>

NoRow == [account_id |-> 0, service_id |-> 0, title |-> 0, timestamp |-> 0]

\* raw_correlate not yet entered
EngineStart ==
    /\ pc = "start"
    /\ window = 0
    /\ results = EmptyTable
    /\ common = {}
    /\ visited = {}
    /\ key = <<0, 0>>
    /\ chg = <<>>
    /\ inc = <<>>
    /\ dq = <<>>
    /\ idx = 0
    /\ ipos = 0
    /\ irow = NoRow
    /\ unique_titles = {}

\* classify_with_llm not entered
ClassifyIdle ==
    /\ cache_path = CHANGE_NOISE_CACHE_FILE
    /\ disk = AbsentFile
    /\ run = 1
    /\ items = <<>>
    /\ pos = 0
    /\ cache = EmptyDict
    /\ labels = EmptyDict
    /\ response = NoResponse
    /\ cpc = "idle"
    /\ oracle_log = <<>>
    /\ stderr = {}

\* main not entered
MainIdle ==
    /\ mpc = "idle"
    /\ all_changes = <<>>
    /\ all_incidents = <<>>
    /\ labeled_changes = EmptyDict
    /\ labeled_incidents = EmptyDict
    /\ raw = EmptyTable
    /\ raw_file = AbsentFile
    /\ label_map = EmptyDict
    /\ causal = EmptyTable
    /\ output = AbsentFile
    /\ stdout = <<>>

Init ==
    /\ changes \in SeqsUpTo(Rows, MaxChanges)
    /\ incidents \in SeqsUpTo(Rows, MaxIncidents)
    /\ window_minutes \in WindowMinutes
    /\ EngineStart
    /\ ClassifyIdle
    /\ MainIdle

\* ---------------------------------------------------------------- actions
\* lines 171-177: window, the empty table, the two groupings, the common keys
Begin ==
    /\ pc = "start"
    /\ window' = timedelta(window_minutes)
    /\ results' = EmptyTable
    /\ common' = CommonGroups(changes, incidents)
    /\ pc' = "for_key"
    /\ UNCHANGED <<main_vars, classify_vars, inputs, visited, key, chg, inc, dq, idx, ipos, irow,
                   unique_titles>>

\* slip: dq = deque() written before the loop over the keys
StartGroupStaleDeque ==
    /\ pc = "for_key"
    /\ \E k \in common \ visited :
        /\ visited' = visited \cup {k}
        /\ key' = k
        /\ chg' \in sort_values(get_group(changes, k))
        /\ inc' \in sort_values(get_group(incidents, k))
        /\ idx' = 0
        /\ ipos' = 0
        /\ pc' = "for_inc"
    /\ UNCHANGED <<main_vars, classify_vars, inputs, window, results, common, dq, irow, unique_titles>>

\* slip: results = defaultdict(int) written inside the loop over the keys
StartGroupNewTable ==
    /\ pc = "for_key"
    /\ \E k \in common \ visited :
        /\ visited' = visited \cup {k}
        /\ key' = k
        /\ chg' \in sort_values(get_group(changes, k))
        /\ inc' \in sort_values(get_group(incidents, k))
        /\ dq' = <<>>
        /\ idx' = 0
        /\ ipos' = 0
        /\ results' = EmptyTable
        /\ pc' = "for_inc"
    /\ UNCHANGED <<main_vars, classify_vars, inputs, window, common, irow, unique_titles>>

\* lines 178-184: the loop over common yields a key (a set: any order); the
\* group's two sub-tables are sorted (equal timestamps: any order), the deque
\* and the cursor start afresh.
\* get_group raises KeyError for a key without rows, which ends in sys.exit.
StartGroup ==
    /\ pc = "for_key"
    /\ \E k \in common \ visited :
        /\ visited' = visited \cup {k}
        /\ key' = k
        /\ IF k \in Groups(changes) /\ k \in Groups(incidents)
           THEN /\ chg' \in sort_values(get_group(changes, k))
                /\ inc' \in sort_values(get_group(incidents, k))
                /\ dq' = <<>>
                /\ idx' = 0
                /\ ipos' = 0
                /\ pc' = "for_inc"
           ELSE /\ pc' = "exit"
                /\ UNCHANGED <<chg, inc, dq, idx, ipos>>
    /\ UNCHANGED <<main_vars, classify_vars, inputs, window, results, common, irow, unique_titles>>

\* lines 186-187: iterrows yields the next incident of the group
NextIncident ==
    /\ pc = "for_inc"
    /\ ipos < Len(inc)
    /\ irow' = inc[ipos + 1]
    /\ ipos' = ipos + 1
    /\ pc' = "admit"
    /\ UNCHANGED <<main_vars, classify_vars, inputs, window, results, common, visited, key, chg, inc,
                   dq, idx, unique_titles>>

\* lines 188-190: one iteration of the admit loop
Admit ==
    /\ pc = "admit"
    /\ AdmitCond(chg, idx, irow.timestamp)
    /\ dq' = AdmitAppend(dq, chg, idx)
    /\ idx' = idx + 1
    /\ UNCHANGED <<main_vars, classify_vars, inputs, pc, window, results, common, visited, key, chg,
                   inc, ipos, irow, unique_titles>>

\* line 188, condition false: on to the eviction loop
AdmitDone ==
    /\ pc = "admit"
    /\ ~AdmitCond(chg, idx, irow.timestamp)
    /\ pc' = "evict"
    /\ UNCHANGED <<main_vars, classify_vars, inputs, window, results, common, visited, key, chg, inc,
                   dq, idx, ipos, irow, unique_titles>>

\* slip: if for while
EvictOnce ==
    /\ pc = "evict"
    /\ EvictCond(dq, irow.timestamp - window)
    /\ dq' = popleft(dq)
    /\ pc' = "count"
    /\ UNCHANGED <<main_vars, classify_vars, inputs, window, results, common, visited, key, chg, inc,
                   idx, ipos, irow, unique_titles>>

\* lines 191-193: one iteration of the eviction loop
Evict ==
    /\ pc = "evict"
    /\ EvictCond(dq, irow.timestamp - window)
    /\ dq' = popleft(dq)
    /\ UNCHANGED <<main_vars, classify_vars, inputs, pc, window, results, common, visited, key, chg,
                   inc, idx, ipos, irow, unique_titles>>

\* line 192, condition false: on to the count
EvictDone ==
    /\ pc = "evict"
    /\ ~EvictCond(dq, irow.timestamp - window)
    /\ pc' = "count"
    /\ UNCHANGED <<main_vars, classify_vars, inputs, window, results, common, visited, key, chg, inc,
                   dq, idx, ipos, irow, unique_titles>>

\* slip: for _, t in dq, one increment for each event of the deque
CountEvents ==
    /\ pc = "count"
    /\ unique_titles' = UniqueTitles(dq)
    /\ results' =
        [p \in DOMAIN results \cup {<<irow.title, c>> : c \in UniqueTitles(dq)} |->
            Count(results, p) +
            (IF p[1] = irow.title
             THEN Cardinality({i \in DOMAIN dq : dq[i][2] = p[2]}) ELSE 0)]
    /\ pc' = "for_inc"
    /\ UNCHANGED <<main_vars, classify_vars, inputs, window, common, visited, key, chg, inc, dq, idx,
                   ipos, irow>>

\* lines 195-197: the distinct titles of the deque, one increment for each
CountTitles ==
    /\ pc = "count"
    /\ unique_titles' = UniqueTitles(dq)
    /\ results' = Increment(results, irow.title, UniqueTitles(dq))
    /\ pc' = "for_inc"
    /\ UNCHANGED <<main_vars, classify_vars, inputs, window, common, visited, key, chg, inc, dq, idx,
                   ipos, irow>>

\* line 186 exhausted: back to the loop over the keys
EndGroup ==
    /\ pc = "for_inc"
    /\ ipos = Len(inc)
    /\ pc' = "for_key"
    /\ UNCHANGED <<main_vars, classify_vars, inputs, window, results, common, visited, key, chg, inc,
                   dq, idx, ipos, irow, unique_titles>>

\* line 199: return results
Return ==
    /\ pc = "for_key"
    /\ visited = common
    /\ pc' = "done"
    /\ UNCHANGED <<main_vars, classify_vars, inputs, window, results, common, visited, key, chg, inc,
                   dq, idx, ipos, irow, unique_titles>>

Next ==
    \/ Begin
    \/ StartGroup
    \/ NextIncident
    \/ Admit
    \/ AdmitDone
    \/ Evict
    \/ EvictDone
    \/ CountTitles
    \/ EndGroup
    \/ Return

Spec == Init /\ [][Next]_vars

\* ------------------------------------------- classify_with_llm (61-125)
\* the variables raw_correlate and classify_with_llm do not touch
engine_vars == <<inputs, pc, window, results, common, visited, key, chg, inc,
                 dq, idx, ipos, irow, unique_titles>>

\* the item the loop is at, and its key (lines 93-97)
CurrentItem == items[pos + 1]
CurrentKey == ItemKey(CurrentItem)

Say(message) == stderr \cup {<<run, message>>}

\* one classify_with_llm call per run, on a cache file that is missing,
\* garbled or unreadable before the first run
InitClassify ==
    /\ changes = <<>>
    /\ incidents = <<>>
    /\ window_minutes = 0
    /\ EngineStart
    /\ cache_path \in {CHANGE_NOISE_CACHE_FILE, CAUSALITY_CACHE_FILE}
    /\ disk \in {AbsentFile, GarbledFile, UnreadableFile}
    /\ run = 1
    /\ items \in ItemLists(ItemsOf(cache_path), MaxItems)
    /\ pos = 0
    /\ cache = EmptyDict
    /\ labels = EmptyDict
    /\ response = NoResponse
    /\ cpc = "load"
    /\ oracle_log = <<>>
    /\ stderr = {}
    /\ MainIdle

\* slip: load_cache without its except clause
LoadCacheNoExcept ==
    /\ cpc = "load"
    /\ IF disk.state \in {"unreadable", "garbled"}
       THEN /\ stderr' = Say("Unexpected error in classify_with_llm")
            /\ cpc' = "exit"
            /\ UNCHANGED <<cache, labels>>
       ELSE /\ cache' = load_cache(disk)
            /\ labels' = EmptyDict
            /\ cpc' = "loop"
            /\ UNCHANGED stderr
    /\ UNCHANGED <<main_vars, engine_vars, cache_path, disk, run, items, pos, response,
                   oracle_log>>

\* lines 90-91 with load_cache (39-48): a missing file and a file json.load
\* rejects both give {}; any other exception of open/read is not caught by
\* load_cache and reaches line 122: sys.exit(1)
LoadCache ==
    /\ cpc = "load"
    /\ IF disk.state = "unreadable"
       THEN /\ stderr' = Say("Unexpected error in classify_with_llm")
            /\ cpc' = "exit"
            /\ UNCHANGED <<cache, labels>>
       ELSE /\ cache' = load_cache(disk)
            /\ labels' = EmptyDict
            /\ cpc' = "loop"
            /\ stderr' = IF disk.state = "garbled"
                         THEN Say("Error loading cache") ELSE stderr
    /\ UNCHANGED <<main_vars, engine_vars, cache_path, disk, run, items, pos, response,
                   oracle_log>>

\* lines 93-100: the next item; a cached key is answered from the cache
LookUp ==
    /\ cpc = "loop"
    /\ pos < Len(items)
    /\ IF CurrentKey \in DOMAIN cache
       THEN /\ labels' = Put(labels, CurrentItem, cache[CurrentKey])
            /\ pos' = pos + 1
            /\ UNCHANGED cpc
       ELSE /\ cpc' = "call"
            /\ UNCHANGED <<labels, pos>>
    /\ UNCHANGED <<main_vars, engine_vars, cache_path, disk, run, items, cache, response,
                   oracle_log, stderr>>

\* lines 102-109: the request to the oracle, which answers or raises
CallOracle ==
    /\ cpc = "call"
    /\ response' \in Replies(cache_path) \cup {Raised}
    /\ oracle_log' = Append(oracle_log, <<run, CurrentKey>>)
    /\ cpc' = "store"
    /\ UNCHANGED <<main_vars, engine_vars, cache_path, disk, run, items, pos, cache,
                   labels, stderr>>

\* slip: the call not wrapped in try/except: line 122 catches, sys.exit(1)
StoreLabelNoExcept ==
    /\ cpc = "store"
    /\ IF response = Raised
       THEN /\ stderr' = Say("Unexpected error in classify_with_llm")
            /\ cpc' = "exit"
            /\ UNCHANGED <<cache, labels, pos>>
       ELSE /\ cache' = Put(cache, CurrentKey, response)
            /\ labels' = Put(labels, CurrentItem, response)
            /\ pos' = pos + 1
            /\ cpc' = "loop"
            /\ UNCHANGED stderr
    /\ UNCHANGED <<main_vars, engine_vars, cache_path, disk, run, items, response,
                   oracle_log>>

\* slip: if label is not None: cache[key] = label
StoreLabelSkipNone ==
    /\ cpc = "store"
    /\ stderr' = IF response = Raised THEN Say("Error classifying") ELSE stderr
    /\ cache' = IF response = Raised THEN cache
                ELSE Put(cache, CurrentKey, LabelOf(response))
    /\ labels' = Put(labels, CurrentItem, LabelOf(response))
    /\ pos' = pos + 1
    /\ cpc' = "loop"
    /\ UNCHANGED <<main_vars, engine_vars, cache_path, disk, run, items, response,
                   oracle_log>>

\* lines 110-117: the label (None after an exception), into cache and results
StoreLabel ==
    /\ cpc = "store"
    /\ stderr' = IF response = Raised THEN Say("Error classifying") ELSE stderr
    /\ cache' = Put(cache, CurrentKey, LabelOf(response))
    /\ labels' = Put(labels, CurrentItem, LabelOf(response))
    /\ pos' = pos + 1
    /\ cpc' = "loop"
    /\ UNCHANGED <<main_vars, engine_vars, cache_path, disk, run, items, response,
                   oracle_log>>

\* lines 119-120 with save_cache (51-58): the cache is written, or open
\* fails (the file stays as it was), or json.dump fails after open has
\* truncated the file; save_cache prints and returns in every case
SaveCache ==
    /\ cpc = "loop"
    /\ pos = Len(items)
    /\ \/ /\ disk' = JsonFile(cache)
          /\ UNCHANGED stderr
       \/ /\ disk' = disk
          /\ stderr' = Say("Error saving cache")
       \/ /\ disk' = GarbledFile
          /\ stderr' = Say("Error saving cache")
    /\ cpc' = "returned"
    /\ UNCHANGED <<main_vars, engine_vars, cache_path, run, items, pos, cache, labels,
                   response, oracle_log>>

\* a later run of the program on the same cache file, with its own items
NextRun ==
    /\ cpc \in {"returned", "exit"}
    /\ run < MaxRuns
    /\ run' = run + 1
    /\ items' \in ItemLists(ItemsOf(cache_path), MaxItems)
    /\ pos' = 0
    /\ cache' = EmptyDict
    /\ labels' = EmptyDict
    /\ response' = NoResponse
    /\ cpc' = "load"
    /\ UNCHANGED <<main_vars, engine_vars, cache_path, disk, oracle_log, stderr>>

NextClassify ==
    \/ LoadCache
    \/ LookUp
    \/ CallOracle
    \/ StoreLabel
    \/ SaveCache
    \/ NextRun

SpecClassify == InitClassify /\ [][NextClassify]_vars

\* ------------------------------------------------------- main (326-350)
COUNT_PAIRS_CACHE_FILE == "cache/raw_count_pairs_cache.json"

\* the rows of a run's two CSV files: one service, one instant, any title
MainRows == {r \in Rows : r.account_id = 1 /\ r.service_id = 1 /\ r.timestamp = 0}

\* the orders in which a set or a dict's keys can be iterated
RECURSIVE Listings(_)
Listings(S) ==
    IF S = {} THEN {<<>>}
    ELSE UNION {{<<x>> \o l : l \in Listings(S \ {x})} : x \in S}

\* lines 93-117: the loop of classify_with_llm over the items its, with the
\* cache c and the results res so far; answer[k] is what the oracle gives
\* when asked about key k
RECURSIVE ClassifyLoop(_, _, _, _)
ClassifyLoop(its, c, res, answer) ==
    IF its = <<>> THEN res
    ELSE LET item == Head(its)
             k == ItemKey(item)
         IN  IF k \in DOMAIN c
             THEN ClassifyLoop(Tail(its), c, Put(res, item, c[k]), answer)
             ELSE ClassifyLoop(Tail(its), Put(c, k, LabelOf(answer[k])),
                               Put(res, item, LabelOf(answer[k])), answer)

\* lines 90-120: the dict classify_with_llm returns for a readable cache file
classify_with_llm(its, file, answer) ==
    ClassifyLoop(its, load_cache(file), EmptyDict, answer)

\* the keys of a set of items, and what the oracle may do on each
KeysOf(S) == {ItemKey(it) : it \in S}
Answers(S, path) == [KeysOf(S) -> Replies(path) \cup {Raised}]

\* lines 47, 112, 57: what a returning classify_with_llm call has printed
ClassifyMessages(S, file, answer, saved) ==
    (IF file.state = "garbled" THEN {"Error loading cache"} ELSE {})
    \cup (IF \E k \in KeysOf(S) \ DOMAIN load_cache(file) : answer[k] = Raised
          THEN {"Error classifying"} ELSE {})
    \cup (IF saved THEN {} ELSE {"Error saving cache"})

\* the states a cache file is found in
CacheFiles == {AbsentFile, GarbledFile, UnreadableFile}

\* set(df["title"]), as items
TitleSet(df) == {<<df[i].title>> : i \in DOMAIN df}

\* slip: everything that is not NOISE is kept
ValidTitlesNotNoise(labelled) ==
    {it \in DOMAIN labelled : labelled[it] /= "NOISE"}

\* lines 251, 263-265: {t for t, lbl in labelled.items() if lbl == "MEANINGFUL"}
ValidTitles(labelled) ==
    {it \in DOMAIN labelled : labelled[it] = "MEANINGFUL"}

\* lines 252, 266: df[df["title"].isin(valid)]
isin(df, valid) == SelectSeq(df, LAMBDA row : <<row.title>> \in valid)

\* dict.get
Get(d, k) == IF k \in DOMAIN d THEN d[k] ELSE None

\* slip: everything that is not NOT_CAUSAL is kept
FinalNotNotCausal(raw_results, lm) ==
    [p \in {q \in DOMAIN raw_results : Get(lm, q) /= "NOT_CAUSAL"}
        |-> raw_results[p]]

\* lines 301-305: the pairs whose label is CAUSAL, with their counts
Final(raw_results, lm) ==
    [p \in {q \in DOMAIN raw_results : Get(lm, q) = "CAUSAL"}
        |-> raw_results[p]]

\* line 317: {f"{i} ||| {c}": cnt for (i, c), cnt in results.items()}; of
\* the pairs that give one key, the last one iterated leaves its count
OutDicts(table) ==
    {o \in [KeysOf(DOMAIN table) -> {table[p] : p \in DOMAIN table}] :
        \A k \in DOMAIN o :
            \E p \in DOMAIN table : ItemKey(p) = k /\ o[k] = table[p]}

\* line 330: the arguments parsed, nothing loaded yet; changes and incidents
\* are what raw_correlate will be handed
InitMain ==
    /\ window_minutes \in WindowMinutes
    /\ changes = <<>>
    /\ incidents = <<>>
    /\ EngineStart
    /\ ClassifyIdle
    /\ mpc = "load"
    /\ all_changes = <<>>
    /\ all_incidents = <<>>
    /\ labeled_changes = EmptyDict
    /\ labeled_incidents = EmptyDict
    /\ raw = EmptyTable
    /\ raw_file = AbsentFile
    /\ label_map = EmptyDict
    /\ causal = EmptyTable
    /\ output = AbsentFile
    /\ stdout = <<>>

\* the variables of the stepwise raw_correlate and classify_with_llm
step_vars == <<window_minutes, pc, window, results, common, visited, key, chg,
               inc, dq, idx, ipos, irow, unique_titles, cache_path, disk,
               run, items, pos, cache, labels, response, cpc, oracle_log>>

Says(messages) == stderr \cup {<<run, m>> : m \in messages}

\* an except clause that ends in sys.exit(1), after earlier messages
Fatal(earlier, message) ==
    /\ stderr' = Says(earlier \cup {message})
    /\ mpc' = "exit"

\* lines 333, 128-147: the two tables, or an exception: sys.exit(1)
LoadAndPrepare ==
    /\ mpc = "load"
    /\ \/ /\ all_changes' \in SeqsUpTo(MainRows, MaxChanges)
          /\ all_incidents' \in SeqsUpTo(MainRows, MaxIncidents)
          /\ mpc' = "noise"
          /\ UNCHANGED stderr
       \/ /\ Fatal({}, "Error loading and preparing data")
          /\ UNCHANGED <<all_changes, all_incidents>>
    /\ UNCHANGED <<step_vars, changes, incidents, labeled_changes,
                   labeled_incidents, raw, raw_file, label_map, causal,
                   output, stdout>>


\* lines 336, 240-273, filter_noise: the change titles are classified, then
\* the incident titles, and the rows whose title is MEANINGFUL are kept. A
\* classify_with_llm call that exits ends the run (SystemExit is not caught
\* by except Exception); an exception of filter_noise itself does too.
FilterNoise ==
    /\ mpc = "noise"
    /\ \/ \E f1 \in CacheFiles, o1 \in Listings(TitleSet(all_changes)),
             a1 \in Answers(TitleSet(all_changes), CHANGE_NOISE_CACHE_FILE),
             s1 \in BOOLEAN :
            IF f1.state = "unreadable"
            THEN /\ Fatal({}, "Unexpected error in classify_with_llm")
                 /\ UNCHANGED <<labeled_changes, labeled_incidents, changes,
                                incidents>>
            ELSE LET lc == classify_with_llm(o1, f1, a1)
                     m1 == ClassifyMessages(TitleSet(all_changes), f1, a1, s1)
                 IN  /\ labeled_changes' = lc
                     /\ \E f2 \in CacheFiles,
                           o2 \in Listings(TitleSet(all_incidents)),
                           a2 \in Answers(TitleSet(all_incidents),
                                          INCIDENT_NOISE_CACHE_FILE),
                           s2 \in BOOLEAN :
                          IF f2.state = "unreadable"
                          THEN /\ Fatal(m1, "Unexpected error in classify_with_llm")
                               /\ UNCHANGED <<labeled_incidents, changes,
                                              incidents>>
                          ELSE LET li == classify_with_llm(o2, f2, a2)
                                   m2 == ClassifyMessages(
                                           TitleSet(all_incidents), f2, a2, s2)
                               IN  /\ labeled_incidents' = li
                                   /\ changes' = isin(all_changes, ValidTitles(lc))
                                   /\ incidents' = isin(all_incidents, ValidTitles(li))
                                   /\ stderr' = Says(m1 \cup m2)
                                   /\ mpc' = "correlate"
       \/ /\ Fatal({}, "Error in noise filtering")
          /\ UNCHANGED <<labeled_changes, labeled_incidents, changes, incidents>>
    /\ UNCHANGED <<step_vars, all_changes, all_incidents, raw, raw_file,
                   label_map, causal, output, stdout>>

\* lines 339, 150-204, raw_correlate on the filtered tables, the common keys
\* iterated in any order; an exception: sys.exit(1)
RawCorrelate ==
    /\ mpc = "correlate"
    /\ \/ /\ \E o \in Orders(CommonGroups(changes, incidents)) :
                raw' = raw_correlate(changes, incidents, window_minutes, o)
          /\ mpc' = "save_raw"
          /\ UNCHANGED stderr
       \/ /\ Fatal({}, "Error in raw correlation")
          /\ UNCHANGED raw
    /\ UNCHANGED <<step_vars, changes, incidents, all_changes, all_incidents,
                   labeled_changes, labeled_incidents, raw_file, label_map,
                   causal, output, stdout>>

\* slip: except: print(...) without sys.exit(1)
SaveRawResultsNoExit ==
    /\ mpc = "save_raw"
    /\ \/ /\ raw_file' = JsonFile(raw)
          /\ UNCHANGED stderr
       \/ /\ raw_file' \in {raw_file, GarbledFile}
          /\ stderr' = Say("Error saving raw results")
    /\ mpc' = "causality"
    /\ UNCHANGED <<step_vars, changes, incidents, all_changes, all_incidents,
                   labeled_changes, labeled_incidents, raw, label_map, causal,
                   output, stdout>>

\* lines 342, 207-218, save_raw_results: the table is written to
\* COUNT_PAIRS_CACHE_FILE, or open fails (the file stays as it was), or
\* json.dump fails after open has truncated the file: sys.exit(1)
SaveRawResults ==
    /\ mpc = "save_raw"
    /\ \/ /\ raw_file' = JsonFile(raw)
          /\ mpc' = "causality"
          /\ UNCHANGED stderr
       \/ /\ raw_file' \in {raw_file, GarbledFile}
          /\ Fatal({}, "Error saving raw results")
    /\ UNCHANGED <<step_vars, changes, incidents, all_changes, all_incidents,
                   labeled_changes, labeled_incidents, raw, label_map, causal,
                   output, stdout>>

\* lines 345, 294-311, filter_causality: the keys of the raw table are
\* classified and the pairs labelled CAUSAL kept; a classify_with_llm call
\* that exits ends the run, an exception of filter_causality itself too
FilterCausality ==
    /\ mpc = "causality"
    /\ \/ \E f \in CacheFiles, o \in Listings(DOMAIN raw),
             a \in Answers(DOMAIN raw, CAUSALITY_CACHE_FILE), s \in BOOLEAN :
            IF f.state = "unreadable"
            THEN /\ Fatal({}, "Unexpected error in classify_with_llm")
                 /\ UNCHANGED <<label_map, causal>>
            ELSE /\ label_map' = classify_with_llm(o, f, a)
                 /\ causal' = Final(raw, label_map')
                 /\ stderr' = Says(ClassifyMessages(DOMAIN raw, f, a, s))
                 /\ mpc' = "write"
       \/ /\ Fatal({}, "Error in causality filtering")
          /\ UNCHANGED <<label_map, causal>>
    /\ UNCHANGED <<step_vars, changes, incidents, all_changes, all_incidents,
                   labeled_changes, labeled_incidents, raw, raw_file, output,
                   stdout>>

\* lines 348-350, 314-323, write_results: the output file is written and
\* the number of causal pairs printed, or open fails, or json.dump fails
\* after open has truncated the file: sys.exit(1)
WriteResults ==
    /\ mpc = "write"
    /\ \/ /\ \E out \in OutDicts(causal) : output' = JsonFile(out)
          /\ stdout' = <<Cardinality(DOMAIN causal)>>
          /\ mpc' = "done"
          /\ UNCHANGED stderr
       \/ /\ output' \in {output, GarbledFile}
          /\ Fatal({}, "Error writing results")
          /\ UNCHANGED stdout
    /\ UNCHANGED <<step_vars, changes, incidents, all_changes, all_incidents,
                   labeled_changes, labeled_incidents, raw, raw_file,
                   label_map, causal>>

NextMain ==
    \/ LoadAndPrepare
    \/ FilterNoise
    \/ RawCorrelate
    \/ SaveRawResults
    \/ FilterCausality
    \/ WriteResults

SpecMain == InitMain /\ [][NextMain]_vars

\* ----------------------------------------------------------------- claims
\* the rows of the change table that belong to group k
GroupChanges(k) == {i \in DOMAIN changes : GroupKeyOf(changes[i]) = k}

\* the changes of the incident's group with lo <= timestamp <= hi
ChangesBetween(incident, lo, hi) ==
    {j \in GroupChanges(GroupKeyOf(incident)) :
        lo <= changes[j].timestamp /\ changes[j].timestamp <= hi}

\* the changes of the incident's group in its window [timestamp - w, timestamp]
InWindow(incident, w) ==
    ChangesBetween(incident, incident.timestamp - w, incident.timestamp)

TitlesOf(rows) == {changes[j].title : j \in rows}

\* brute force: for each incident, one for every distinct title among the
\* changes of its group with its - w <= timestamp <= its
BruteCount(p, w) ==
    Cardinality({i \in DOMAIN incidents :
        /\ incidents[i].title = p[1]
        /\ p[2] \in TitlesOf(InWindow(incidents[i], w))})

BruteTable(w) ==
    [p \in {q \in Titles \X Titles : BruteCount(q, w) > 0} |-> BruteCount(p, w)]

\* the state right after the current incident irow has been counted
Processed == pc = "for_inc" /\ ipos >= 1

\* the step that counts the current incident irow (lines 195-197)
CountStep == pc = "count" /\ pc' = "for_inc"

\* what that step adds to the count of (irow's title, c)
Delta(c) == Count(results', <<irow.title, c>>) - Count(results, <<irow.title, c>>)

\* the changes of the incident's group older than t, and later than t
OlderThan(incident, t) ==
    {j \in GroupChanges(GroupKeyOf(incident)) : changes[j].timestamp < t}

LaterThan(incident, t) ==
    {j \in GroupChanges(GroupKeyOf(incident)) : changes[j].timestamp > t}

\* C1: for every non-negative window the table built incrementally (cursor
\* and deque, admit then evict then count) is the brute-force table.
C1_IncrementalEqualsBruteForce ==
    (pc = "done" /\ window_minutes >= 0) =>
        results = BruteTable(timedelta(window_minutes))

\* a finished run in which a change was evicted and another one was counted
C1_Witness ==
    /\ pc = "done"
    /\ window_minutes >= 0
    /\ results /= EmptyTable
    /\ \E i \in DOMAIN incidents :
        \E j \in GroupChanges(GroupKeyOf(incidents[i])) :
            changes[j].timestamp < incidents[i].timestamp - window

\* C2: if N >= 1 changes of the same title lie in the incident's window,
\* counting that incident adds exactly 1 to (incident title, that title).
C2_NoFalseMultiplicity ==
    [][CountStep =>
        \A c \in Titles :
            Cardinality({j \in InWindow(irow, window) : changes[j].title = c}) >= 1
                => Delta(c) = 1]_vars

\* two changes of one title in the window of the incident just counted, once
C2_Witness ==
    /\ Processed
    /\ \E c \in Titles :
        /\ Cardinality({j \in InWindow(irow, window) : changes[j].title = c}) >= 2
        /\ Count(results, <<irow.title, c>>) = 1

\* C3: with a non-negative window, a change of the incident's group at
\* exactly its - window is counted; a title whose changes in the group are
\* all outside the window, one of them older than its - window, is not.
C3_LowerEdge ==
    [][CountStep =>
        \A c \in Titles :
            /\ (/\ window_minutes >= 0
                /\ c \in TitlesOf(ChangesBetween(irow, irow.timestamp - window,
                                                 irow.timestamp - window)))
                    => Delta(c) = 1
            /\ (/\ c \in TitlesOf(OlderThan(irow, irow.timestamp - window))
                /\ c \notin TitlesOf(InWindow(irow, window)))
                    => Delta(c) = 0]_vars

\* a change exactly at the cutoff was counted, an older one of another title
\* was not
C3_Witness ==
    /\ Processed
    /\ window > 0
    /\ \E j, k \in GroupChanges(GroupKeyOf(irow)) :
        /\ changes[j].timestamp = irow.timestamp - window
        /\ changes[k].timestamp < irow.timestamp - window
        /\ <<irow.title, changes[j].title>> \in DOMAIN results
        /\ <<irow.title, changes[k].title>> \notin DOMAIN results

\* C4: once the admit loop has ended, exactly the changes with timestamp <=
\* its are admitted; with a non-negative window a change at exactly its is
\* counted, and a title whose changes in the group are all outside the
\* window, one of them later than its, is not counted.
C4_UpperEdge ==
    /\ [](pc \in {"evict", "count"} =>
            \A k \in 1..Len(chg) :
                k <= idx <=> chg[k].timestamp <= irow.timestamp)
    /\ [][CountStep =>
        \A c \in Titles :
            /\ (/\ window_minutes >= 0
                /\ c \in TitlesOf(ChangesBetween(irow, irow.timestamp,
                                                 irow.timestamp)))
                    => Delta(c) = 1
            /\ (/\ c \in TitlesOf(LaterThan(irow, irow.timestamp))
                /\ c \notin TitlesOf(InWindow(irow, window)))
                    => Delta(c) = 0]_vars

\* a change at the incident's own timestamp was counted, a later one of
\* another title was not and is still unadmitted
C4_Witness ==
    /\ Processed
    /\ window_minutes >= 0
    /\ idx < Len(chg)
    /\ \E j, k \in GroupChanges(GroupKeyOf(irow)) :
        /\ changes[j].timestamp = irow.timestamp
        /\ changes[k].timestamp > irow.timestamp
        /\ <<irow.title, changes[j].title>> \in DOMAIN results
        /\ <<irow.title, changes[k].title>> \notin DOMAIN results

\* C5: every group's pass starts with an empty deque and the cursor at 0,
\* the deque holds changes of the current group only, and counting an
\* incident adds only to pairs of its own title with titles of changes of
\* its own group inside its window.
C5_GroupIsolation ==
    /\ []((pc = "for_inc" /\ ipos = 0) => (dq = <<>> /\ idx = 0))
    /\ [](pc \in {"for_inc", "admit", "evict", "count"} =>
            \A e \in DOMAIN dq : \E j \in GroupChanges(key) :
                dq[e] = <<changes[j].timestamp, changes[j].title>>)
    /\ [][CountStep =>
        /\ GroupKeyOf(irow) = key
        /\ \A p \in DOMAIN results' :
            Count(results', p) /= Count(results, p) =>
                /\ p[1] = irow.title
                /\ p[2] \in TitlesOf(InWindow(irow, window))]_vars

\* the second of two common groups: a change of the other group lies in
\* the time window of the incident just counted and its title was not counted
C5_Witness ==
    /\ Processed
    /\ Cardinality(visited) = 2
    /\ \E j \in DOMAIN changes :
        /\ GroupKeyOf(changes[j]) /= key
        /\ GroupKeyOf(changes[j]) \in visited
        /\ irow.timestamp - window <= changes[j].timestamp
        /\ changes[j].timestamp <= irow.timestamp
        /\ <<irow.title, changes[j].title>> \notin DOMAIN results

\* C6: the table returned equals the table of raw_correlate for every order
\* in which the common keys can be visited.
C6_GroupOrderIrrelevant ==
    pc = "done" =>
        \A o \in Orders(CommonGroups(changes, incidents)) :
            results = raw_correlate(changes, incidents, window_minutes, o)

\* two common groups, both contributing to the same pair
C6_Witness ==
    /\ pc = "done"
    /\ Cardinality(common) = 2
    /\ \E p \in DOMAIN results : results[p] = 2

\* C7: a negative window never reaches the admit/evict loop and never
\* returns a table.
C7_NegativeWindowRejected ==
    window_minutes < 0 => pc \notin {"admit", "evict", "count", "done"}

\* C8: the table returned for the rows as given equals the table of
\* raw_correlate for the same rows presented in ascending timestamp order.
C8_SortsOnIngestion ==
    pc = "done" =>
        \A sc \in {t \in Permutations(changes) : IsSortedByTimestamp(t)} :
            \A si \in {t \in Permutations(incidents) : IsSortedByTimestamp(t)} :
                \A o \in Orders(CommonGroups(changes, incidents)) :
                    results = raw_correlate(sc, si, window_minutes, o)

\* both tables of a group given in descending order, and something counted
C8_Witness ==
    /\ pc = "done"
    /\ results /= EmptyTable
    /\ Len(changes) = 2 /\ Len(incidents) = 2
    /\ GroupKeyOf(changes[1]) = GroupKeyOf(changes[2])
    /\ GroupKeyOf(incidents[1]) = GroupKeyOf(incidents[2])
    /\ changes[1].timestamp > changes[2].timestamp
    /\ incidents[1].timestamp > incidents[2].timestamp

\* C9: raw_correlate never ends in an error; a pass runs, and the table
\* changes, only for a key that has rows in both tables; without such a key
\* the table returned is empty.
C9_OneSidedGroupsDropped ==
    /\ [](pc /= "exit")
    /\ [](pc \in {"for_inc", "admit", "evict", "count"} =>
            (GroupChanges(key) /= {} /\
             \E i \in DOMAIN incidents : GroupKeyOf(incidents[i]) = key))
    /\ []((pc = "done" /\ Groups(changes) \cap Groups(incidents) = {}) =>
            results = EmptyTable)
    /\ [][results' /= results =>
            (GroupChanges(key) /= {} /\
             \E i \in DOMAIN incidents : GroupKeyOf(incidents[i]) = key)]_vars

\* a run that returned a non-empty table although one group has changes only
C9_Witness ==
    /\ pc = "done"
    /\ results /= EmptyTable
    /\ Groups(changes) \ Groups(incidents) /= {}

\* C10: with a window of zero minutes, counting an incident adds 1 to the
\* pairs with the titles of the changes of its group at exactly its
\* timestamp, and nothing to any other pair.
C10_ZeroWindow ==
    [][(CountStep /\ window_minutes = 0) =>
        /\ \A c \in Titles :
            Delta(c) = IF c \in TitlesOf(ChangesBetween(irow, irow.timestamp,
                                                        irow.timestamp))
                       THEN 1 ELSE 0
        /\ \A p \in DOMAIN results' :
            p[1] /= irow.title => Count(results', p) = Count(results, p)]_vars

\* window zero: a change at the incident's timestamp counted, an earlier one
\* of another title not
C10_Witness ==
    /\ Processed
    /\ window_minutes = 0
    /\ \E j, k \in GroupChanges(GroupKeyOf(irow)) :
        /\ changes[j].timestamp = irow.timestamp
        /\ changes[k].timestamp < irow.timestamp
        /\ <<irow.title, changes[j].title>> \in DOMAIN results
        /\ <<irow.title, changes[k].title>> \notin DOMAIN results

\* the positions of raw_correlate inside one group's pass
InPass == pc \in {"for_inc", "admit", "evict", "count"}

\* C17: during a group's pass the cursor stays within 0..n and never moves
\* back, the deque is the slice chg[lo..idx) of the sorted changes, in
\* timestamp order, it changes only by an append at the tail (with the
\* cursor advancing by one) or a removal at the head, and lo never moves back.
C17_SingleForwardScan ==
    /\ [](InPass =>
            /\ idx \in 0..Len(chg)
            /\ Len(dq) <= idx
            /\ \A k \in 1..Len(dq) :
                dq[k] = <<chg[idx - Len(dq) + k].timestamp,
                          chg[idx - Len(dq) + k].title>>
            /\ \A j, k \in 1..Len(dq) : j <= k => dq[j][1] <= dq[k][1])
    /\ [][pc /= "for_key" =>
            /\ idx' >= idx
            /\ idx' - Len(dq') >= idx - Len(dq)
            /\ \/ dq' = dq /\ idx' = idx
               \/ dq /= <<>> /\ dq' = Tail(dq) /\ idx' = idx
               \/ /\ idx < Len(chg)
                  /\ idx' = idx + 1
                  /\ dq' = Append(dq, <<chg[idx + 1].timestamp,
                                        chg[idx + 1].title>>)]_vars

\* the second incident of a group counted, one change evicted, one kept
C17_Witness ==
    /\ Processed
    /\ ipos >= 2
    /\ dq /= <<>>
    /\ idx - Len(dq) >= 1

\* the incidents of title t processed so far: all those of the groups
\* already left, and those iterrows has yielded in the current group
IncidentsProcessed(t) ==
    Cardinality({i \in DOMAIN incidents :
        /\ incidents[i].title = t
        /\ GroupKeyOf(incidents[i]) \in visited \ {key}})
    + Cardinality({k \in 1..ipos : inc[k].title = t})

\* C19: every key present in the table has a count of at least 1, and the
\* count of (I, C) never exceeds the number of incidents of title I
\* processed so far.
C19_CountBounds ==
    \A p \in DOMAIN results :
        /\ results[p] >= 1
        /\ results[p] <= IncidentsProcessed(p[1])

\* a pair counted for each of two incidents, in two different groups
C19_Witness ==
    /\ pc = "done"
    /\ Cardinality(visited) = 2
    /\ \E p \in DOMAIN results :
        results[p] = 2 /\ IncidentsProcessed(p[1]) = 2

\* the keys the oracle was asked about in run r
Asked(r) == {oracle_log[i][2] : i \in {j \in DOMAIN oracle_log : oracle_log[j][1] = r}}

ItemSet == {items[i] : i \in DOMAIN items}

\* C11: when the oracle call for an item raises, the item gets the label
\* None and the loop goes on with the next item; a call that returned has an
\* entry for every item; classify_with_llm never exits once it has called
\* the oracle.
C11_FailedCallAbsorbed ==
    /\ [][(cpc = "store" /\ response = Raised) =>
            /\ cpc' = "loop"
            /\ pos' = pos + 1
            /\ CurrentItem \in DOMAIN labels'
            /\ labels'[CurrentItem] = None]_vars
    /\ [](cpc = "returned" => DOMAIN labels = ItemSet)
    /\ [](cpc = "exit" => Asked(run) = {})

\* a call that returned two entries: None for the item whose call raised,
\* the oracle's text for the item after it
C11_Witness ==
    /\ cpc = "returned"
    /\ Len(items) = 2
    /\ <<run, "Error classifying">> \in stderr
    /\ labels[items[1]] = None
    /\ labels[items[2]] \in Replies(cache_path)
    /\ Cardinality(Asked(run)) = 2

NoSaveFailed == \A r \in 1..MaxRuns : <<r, "Error saving cache">> \notin stderr

\* C12: the oracle is asked only about the current item's key and only when
\* the loaded cache lacks it; every answer, a failed one included, is stored
\* under that key and is in the file after a successful save; as long as no
\* save has failed, no key is asked about twice over all the runs.
C12_Memoized ==
    /\ [][oracle_log' /= oracle_log =>
            /\ CurrentKey \notin DOMAIN cache
            /\ oracle_log' = Append(oracle_log, <<run, CurrentKey>>)]_vars
    /\ [][cpc = "store" =>
            /\ CurrentKey \in DOMAIN cache'
            /\ cache'[CurrentKey] = LabelOf(response)]_vars
    /\ []((cpc = "returned" /\ <<run, "Error saving cache">> \notin stderr) =>
            /\ disk = JsonFile(cache)
            /\ \A it \in ItemSet : ItemKey(it) \in DOMAIN disk.data)
    /\ [](NoSaveFailed =>
            \A i, j \in DOMAIN oracle_log :
                oracle_log[i][2] = oracle_log[j][2] => i = j)

\* a second run answered None from the cache for a key whose call failed in
\* the first run, without asking again
C12_Witness ==
    /\ cpc = "returned"
    /\ run = 2
    /\ NoSaveFailed
    /\ <<1, "Error classifying">> \in stderr
    /\ \E it \in ItemSet :
        /\ ItemKey(it) \in Asked(1)
        /\ ItemKey(it) \notin Asked(2)
        /\ labels[it] = None

\* C14: a cache file json.load rejects makes load_cache return the empty
\* dict; the call goes on, asks the oracle about every item's key and
\* returns, it never exits.
C14_GarbledCacheIsEmpty ==
    /\ [][(cpc = "load" /\ disk.state = "garbled") =>
            (cache' = EmptyDict /\ cpc' = "loop")]_vars
    /\ [](<<run, "Error loading cache">> \in stderr => cpc /= "exit")
    /\ []((cpc = "returned" /\ <<run, "Error loading cache">> \in stderr) =>
            Asked(run) = {ItemKey(it) : it \in ItemSet})

\* a call on a garbled cache file that returned after asking about two keys
C14_Witness ==
    /\ cpc = "returned"
    /\ <<run, "Error loading cache">> \in stderr
    /\ Cardinality(Asked(run)) = 2
    /\ DOMAIN labels = ItemSet

\* the messages of the fatal errors of the stages before write_results
EarlyFatal ==
    {"Error loading and preparing data", "Error in noise filtering",
     "Unexpected error in classify_with_llm", "Error in raw correlation",
     "Error saving raw results", "Error in causality filtering"}

StoppedEarly == \E m \in EarlyFatal : <<run, m>> \in stderr

\* C13: a fatal error in loading, noise filtering, correlation, saving the
\* raw results or causality filtering halts the run (no step follows the
\* exit) and leaves no output file and no "Done" line; the output file
\* changes only in write_results, which is entered only when every earlier
\* stage has returned: both tables' titles labelled, the raw table saved,
\* its pairs labelled, no fatal message printed.
C13_NoOutputAfterFatalError ==
    /\ [](StoppedEarly => (mpc = "exit" /\ output = AbsentFile /\ stdout = <<>>))
    /\ [][mpc /= "exit"]_vars
    /\ [][output' /= output => mpc = "write"]_vars
    /\ [](mpc = "write" =>
            /\ ~StoppedEarly
            /\ DOMAIN labeled_changes = TitleSet(all_changes)
            /\ DOMAIN labeled_incidents = TitleSet(all_incidents)
            /\ raw_file = JsonFile(raw)
            /\ DOMAIN label_map = DOMAIN raw)

\* the raw table was computed and is not empty, saving it failed
C13_Witness ==
    /\ mpc = "exit"
    /\ <<run, "Error saving raw results">> \in stderr
    /\ DOMAIN raw /= {}
    /\ raw_file /= JsonFile(raw)
    /\ output = AbsentFile

\* C15: every row handed to raw_correlate has a title whose label is exactly
\* MEANINGFUL, so a title labelled NOISE, labelled anything else or left
\* without a label (None) reaches neither the tables nor a pair of the raw
\* table; the raw table is computed only after both sets of titles have
\* been classified.
C15_NoiseFilterBeforeCorrelation ==
    /\ [](\A i \in DOMAIN changes :
            Get(labeled_changes, <<changes[i].title>>) = "MEANINGFUL")
    /\ [](\A i \in DOMAIN incidents :
            Get(labeled_incidents, <<incidents[i].title>>) = "MEANINGFUL")
    /\ [](\A p \in DOMAIN raw :
            /\ Get(labeled_incidents, <<p[1]>>) = "MEANINGFUL"
            /\ Get(labeled_changes, <<p[2]>>) = "MEANINGFUL")
    /\ [][raw' /= raw =>
            /\ mpc = "correlate"
            /\ DOMAIN labeled_changes = TitleSet(all_changes)
            /\ DOMAIN labeled_incidents = TitleSet(all_incidents)]_vars

\* a pair was counted while a change title got another answer than the two
\* asked for and an incident title's classification failed
C15_Witness ==
    /\ mpc = "save_raw"
    /\ DOMAIN raw /= {}
    /\ \E it \in DOMAIN labeled_changes : labeled_changes[it] = "UNSURE"
    /\ \E it \in DOMAIN labeled_incidents : labeled_incidents[it] = None

\* C16: the final table's pairs are pairs of the raw table, each with its
\* raw count; a pair of the raw table is in the final table if and only if
\* its label is exactly CAUSAL, so a pair labelled None (failed) or without
\* a label is not.
C16_CausalityFilterOnlyRemoves ==
    /\ [](DOMAIN causal \subseteq DOMAIN raw)
    /\ [](\A p \in DOMAIN causal : causal[p] = raw[p])
    /\ [](mpc \in {"write", "done"} =>
            \A p \in DOMAIN raw :
                p \in DOMAIN causal <=> Get(label_map, p) = "CAUSAL")
    /\ [](\A p \in DOMAIN raw :
            Get(label_map, p) \in {None, "NOT_CAUSAL", "UNSURE"} =>
                p \notin DOMAIN causal)

\* one pair survived with a count above one, one was dropped for a failed
\* label
C16_Witness ==
    /\ mpc = "write"
    /\ \E p, q \in DOMAIN raw :
        /\ p \in DOMAIN causal /\ causal[p] = MaxIncidents
        /\ q \notin DOMAIN causal /\ label_map[q] = None

\* C18: no two pairs of the final table have the same "incident ||| change"
\* key: the output file has one entry per causal pair, as many as the run
\* reports, each with that pair's count.
C18_KeysCollisionFree ==
    output.state = "json" =>
        /\ \A p, q \in DOMAIN causal : ItemKey(p) = ItemKey(q) => p = q
        /\ Cardinality(DOMAIN output.data) = stdout[1]
        /\ \A p \in DOMAIN causal : output.data[ItemKey(p)] = causal[p]

====
